---- MODULE Spec2Model ----
(***************************************************************************)
(* A model of plot-all-in-ncfile.py and plot_util.py: the cyclic-point     *)
(* corrector (check_cyclic, cyclic_dataarray), the colormap resolution and *)
(* its colorfile, and the plotting loop over variables and timestamps.     *)
(***************************************************************************)
EXTENDS Integers, Sequences, FiniteSets, TLC

VARIABLES
    \* --- the command line and the files it names (inputs, never written)
    args,           \* [variables, colorfile, sample]: the parsed command line
    nc_file,        \* the netCDF file args.nc_file names
    colorfile,      \* the pickled mapping args.colorfile names
    \* --- the script's variables (plot-all-in-ncfile.py __main__)
    pc,             \* where the script is
    dataset,        \* the opened dataset, its dimensions renamed
    color_data,     \* variable name -> colormap keyword arguments
    i,              \* position of the running loop in dataset.variables
    g,              \* position of the time loop in the groups of the variable
    var_cmap_kwargs,\* color_data[v] of the variable being plotted
    plot_data,      \* the slice held by the loop variable plot_data
    prev,           \* the slice before the corrector last ran on it
    cyc_status,     \* "ok", or the exception the corrector raised
    \* --- what the run leaves behind
    warned,         \* the warnings.warn calls, in order
    cf_disk,        \* the .cf file beside the netCDF file
    saved,          \* the plt.savefig calls, in order: the file names
    renders,        \* the plot_func calls, in order
    \* --- the corrector applied repeatedly to one slice
    orig,           \* the slice as it was first given
    applied         \* how many times the corrector has been applied

cycvars == <<plot_data, orig, cyc_status, applied, prev>>

runvars == <<args, nc_file, colorfile, pc, dataset, color_data, i, g,
             var_cmap_kwargs, warned, cf_disk, saved, renders>>

vars == <<args, nc_file, colorfile, pc, dataset, color_data, i, g,
          var_cmap_kwargs, plot_data, prev, cyc_status, warned, cf_disk,
          saved, renders, orig, applied>>

----------------------------------------------------------------------------
(* Bounds *)

\* longest longitude axis drawn for the corrector's inputs
MaxLon == 3

\* how many times in a row the corrector is applied to one slice
MaxApply == 2

----------------------------------------------------------------------------
(* Data values.  mask_and_scale=True decodes missing values to NaN; NaN is *)
(* a float that is not equal to itself, modelled by a value outside the    *)
(* data range that FloatEq never finds equal to anything.                  *)

NaN == 99999

FloatEq(a, b) == a # NaN /\ b # NaN /\ a = b

\* the values a cell of a drawn slice holds
CellVals == {0, 1, NaN}

\* the longitudes (degrees east) a drawn longitude axis is made of
LonVals == {0, 120, 180, 240, 360}

\* the latitude coordinate of every drawn slice (two rows)
LatCoord == <<-45, 45>>

Last(s) == s[Len(s)]

----------------------------------------------------------------------------
(* check_cyclic and cyclic_dataarray (plot_util.py) *)

\* data.isel(lon=i): the column at longitude index i, one value per row
isel(data, j) == [r \in DOMAIN data.vals |-> data.vals[r][j]]

\* data.isel(lon=0) on an axis of length 0 raises IndexError
check_cyclic_raises(data) == Len(data.lon) = 0

\* np.all(data.isel(lon=0) == data.isel(lon=-1)) : element-wise float ==
check_cyclic(data) ==
    \A r \in DOMAIN data.vals :
        FloatEq(isel(data, 1)[r], isel(data, Len(data.lon))[r])

\* np.diff(coord)
diff(coord) == [j \in 1..(Len(coord) - 1) |-> coord[j + 1] - coord[j]]

\* cartopy.util.add_cyclic_point(values, coord=..., axis=lon_idx): the
\* exception it raises, or "ok"
add_cyclic_point_status(da) ==
    IF Len(da.lon) < 2 THEN "IndexError"           \* delta_coord[0] of an empty diff
    ELSE IF \E j \in DOMAIN diff(da.lon) : diff(da.lon)[j] # diff(da.lon)[1]
         THEN "ValueError"                         \* coordinate not equally spaced
    ELSE "ok"

\* a variant of cyclic_coord that puts the new sample one revolution after
\* the first longitude, whatever the spacing of the axis
cyclic_coord_first360(da) == Append(da.lon, da.lon[1] + 360)

\* new_coord = concatenate(coord, coord[-1:] + delta_coord[0])
cyclic_coord(da) == Append(da.lon, Last(da.lon) + diff(da.lon)[1])

\* new_data = concatenate(data, data[..., 0:1]) along the longitude axis
cyclic_data(da) == [r \in DOMAIN da.vals |-> Append(da.vals[r], da.vals[r][1])]

\* cyclic_dataarray(da): a new DataArray from the extended values and
\* coordinate, the other coordinates, and the copied attributes; the
\* constructor is given no name
cyclic_dataarray(da) ==
    [ name      |-> "",
      lon       |-> cyclic_coord(da),
      lat       |-> da.lat,
      time      |-> da.time,
      vals      |-> cyclic_data(da),
      attrs     |-> da.attrs,
      lon_attrs |-> da.lon_attrs ]

\* plot-all-in-ncfile.py 142-144: the exception raised, or "ok"
CorrectorStatus(data) ==
    IF check_cyclic_raises(data) THEN "IndexError"
    ELSE IF check_cyclic(data) THEN "ok"
    ELSE add_cyclic_point_status(data)

\* plot-all-in-ncfile.py 142-144: the slice handed on to geo_plot
Corrector(data) ==
    IF CorrectorStatus(data) = "ok" /\ ~check_cyclic(data)
    THEN cyclic_dataarray(data)
    ELSE data

----------------------------------------------------------------------------
(* Colormap keyword arguments: _determine_cmap_params and the dicts of     *)
(* keyword arguments the script stores, pickles and hands to geo_plot.     *)
(* A dict is the set of keys it holds and a value for each key; a key it   *)
(* does not hold carries a filler (0 or "").  Bounds are kept in           *)
(* hundredths of a data unit, so that a percentile of integer data is an   *)
(* integer.                                                                *)

CmapKeys == {"vmin", "vmax", "cmap", "extend", "levels", "cnorm"}

Kw(keys, vmin, vmax, cmap, extend, levels, cnorm, transform) ==
    [ keys |-> keys, vmin |-> vmin, vmax |-> vmax, cmap |-> cmap,
      extend |-> extend, levels |-> levels, cnorm |-> cnorm,
      transform |-> transform ]

\* dict.update(b) on a
Update(a, b) ==
    Kw( a.keys \cup b.keys,
        IF "vmin" \in b.keys THEN b.vmin ELSE a.vmin,
        IF "vmax" \in b.keys THEN b.vmax ELSE a.vmax,
        IF "cmap" \in b.keys THEN b.cmap ELSE a.cmap,
        IF "extend" \in b.keys THEN b.extend ELSE a.extend,
        IF "levels" \in b.keys THEN b.levels ELSE a.levels,
        IF "cnorm" \in b.keys THEN b.cnorm ELSE a.cnorm,
        IF "transform" \in b.keys THEN b.transform ELSE a.transform )

EmptyKw == Kw({}, 0, 0, "", "", 0, 0, "")

Abs(x) == IF x < 0 THEN -x ELSE x

Max(a, b) == IF a >= b THEN a ELSE b

NotNaN(x) == x # NaN

\* s with x inserted before the first element greater than x
RECURSIVE Insert(_, _)
Insert(s, x) ==
    IF s = <<>> THEN <<x>>
    ELSE IF x <= Head(s) THEN <<x>> \o s
    ELSE <<Head(s)>> \o Insert(Tail(s), x)

RECURSIVE Sorted(_)
Sorted(s) == IF s = <<>> THEN <<>> ELSE Insert(Sorted(Tail(s)), Head(s))

\* np.percentile(calc, q), linear interpolation, of sorted calc; in hundredths
Percentile(calc, q) ==
    LET pos == q * (Len(calc) - 1)
        lo  == pos \div 100
        fr  == pos % 100
    IN  IF fr = 0 THEN 100 * calc[lo + 1]
        ELSE 100 * calc[lo + 1] + fr * (calc[lo + 2] - calc[lo + 1])

\* _determine_extend(calc_data, vmin, vmax)
determine_extend(calc, vmin, vmax) ==
    LET extend_min == 100 * calc[1] < vmin
        extend_max == 100 * Last(calc) > vmax
    IN  IF extend_min /\ extend_max THEN "both"
        ELSE IF extend_min THEN "min"
        ELSE IF extend_max THEN "max"
        ELSE "neither"

\* _determine_cmap_params(plot_data, levels=levels, robust=robust,
\* extend=extend) on data with at least one finite value; levels = 0 is
\* None and extend = "" is None.  The positions of the level boundaries
\* (MaxNLocator's ticks between the bounds) follow from the bounds and the
\* count, and the dict carries the count.
determine_cmap_params(data, levels, robust, extend) ==
    LET calc  == Sorted(SelectSeq(data, NotNaN))
        vmin0 == IF robust THEN Percentile(calc, 2) ELSE 100 * calc[1]
        vmax0 == IF robust THEN Percentile(calc, 98) ELSE 100 * Last(calc)
        divergent == vmin0 < 0 /\ vmax0 > 0
        vlim  == Max(Abs(vmin0), Abs(vmax0))
        vmin  == IF divergent THEN -vlim ELSE vmin0
        vmax  == IF divergent THEN vlim ELSE vmax0
    IN  Kw( CmapKeys, vmin, vmax,
            IF divergent THEN "RdBu_r" ELSE "viridis",
            IF extend # "" THEN extend ELSE determine_extend(calc, vmin, vmax),
            levels, levels, "" )

\* the number of levels of the batch inference
BatchLevels == 21

\* line 101-104: the inference of the no-colorfile branch
infer_batch(data) == determine_cmap_params(data, BatchLevels, TRUE, "both")

\* line 93: the inference for a variable the colorfile does not hold
infer_fallback(data) == determine_cmap_params(data, 0, FALSE, "")

\* a mapping (dict) with key k set to x
Put(m, k, x) == [y \in (DOMAIN m) \cup {k} |-> IF y = k THEN x ELSE m[y]]

----------------------------------------------------------------------------
(* The netCDF file and the dataset opened from it *)

\* dataset.variables as the file names them, in order: the dimensions, a
\* coordinate that is no dimension, and two data variables
FileVariables(style) ==
    IF style = "long"
    THEN <<"time", "latitude", "longitude", "lev", "temperature", "pressure">>
    ELSE <<"time", "lat", "lon", "lev", "temperature", "pressure">>

FileDims(style) ==
    IF style = "long" THEN {"time", "latitude", "longitude"}
    ELSE {"time", "lat", "lon"}

\* dataset.rename({old: new}) on a name
rename(name, old, new) == IF name = old THEN new ELSE name

\* lines 70-75: both renames, each only when the old name is in the dataset
Coerce(names, n) ==
    LET n1 == IF "longitude" \in names THEN rename(n, "longitude", "lon") ELSE n
    IN  IF "latitude" \in names THEN rename(n1, "latitude", "lat") ELSE n1

Range(s) == {s[k] : k \in DOMAIN s}

\* lines 58-75: the dataset of an opened file
open_dataset(f) ==
    LET names == Range(FileVariables(f.style))
    IN  [ variables |-> [k \in DOMAIN FileVariables(f.style) |->
                            Coerce(names, FileVariables(f.style)[k])],
          dims      |-> {Coerce(names, d) : d \in FileDims(f.style)},
          coords    |-> {Coerce(names, d) : d \in FileDims(f.style)} \cup {"lev"},
          time      |-> f.time,
          lon       |-> f.lon ]

Closed == [variables |-> <<>>, dims |-> {}, coords |-> {}, time |-> <<>>,
           lon |-> <<>>]

\* the file's longitude axis already ends on the first longitude + 360
Wraps(ds) == Last(ds.lon) - ds.lon[1] = 360

\* the value of data variable v at time index k, row r, longitude index l
Field(ds, v, k, r, l) ==
    LET ll == IF Wraps(ds) /\ l = Len(ds.lon) THEN 1 ELSE l
    IN  IF v = "temperature" THEN ll + 2 * k - 4
        ELSE IF r = 1 /\ ll = 1 THEN NaN
        ELSE 10 * k + r

VarAttrs(v) ==
    IF v = "temperature"
    THEN {<<"long_name", "Temperature">>, <<"units", "K">>, <<"level", "850">>}
    ELSE {}

\* position of t in the sequence s
IndexOf(s, t) == CHOOSE k \in DOMAIN s : s[k] = t

\* var_data.groupby('time'): the distinct times, ascending
Groups(ds) == Sorted(ds.time)

\* the group of time t: the (lat, lon) slice of var_data at t
SliceOf(ds, v, t) ==
    [ name      |-> v,
      lon       |-> ds.lon,
      lat       |-> LatCoord,
      time      |-> t,
      vals      |-> [r \in DOMAIN LatCoord |->
                        [l \in DOMAIN ds.lon |->
                            Field(ds, v, IndexOf(ds.time, t), r, l)]],
      attrs     |-> VarAttrs(v),
      lon_attrs |-> {<<"units", "degrees_east">>} ]

RECURSIVE Flatten(_)
Flatten(ss) == IF ss = <<>> THEN <<>> ELSE Head(ss) \o Flatten(Tail(ss))

\* dataset[v].data flattened: every value of v, all timesteps
VarData(ds, v) ==
    IF v = "lev" THEN <<850>>
    ELSE IF v \in ds.dims THEN <<>>
    ELSE Flatten([k \in DOMAIN ds.time |->
                    Flatten(SliceOf(ds, v, ds.time[k]).vals)])

\* darray.data flattened
SliceData(da) == Flatten(da.vals)

----------------------------------------------------------------------------
(* Timestamps and file names *)

\* ts.strftime("%m%d%Y_%H%MZ") of a time in seconds: the date, the hour and
\* the minute; the seconds are not part of the format
fn_ts_str(t) == <<t \div 86400, (t \div 3600) % 24, (t \div 60) % 60>>

\* "%s_%s.%s" % (v, fn_ts_str, plot_fmt)
out_fn(v, t) == <<v, fn_ts_str(t), "png">>

----------------------------------------------------------------------------
(* geo_plot (plot_util.py), called with ax and the stored keyword args *)

\* 'vmin' in kwargs
has_vmin(kwargs) == "vmin" \in kwargs.keys

\* a variant of geo_plot_args that infers the parameters from the slice
\* whether or not kwargs holds 'vmin'
geo_plot_args_reinfer(darray, kwargs) ==
    Update(Update(EmptyKw, kwargs), infer_fallback(SliceData(darray)))

\* the keyword arguments plot_func receives: _PLOTTYPE_ARGS['contourf']
\* updated with kwargs, the transform, and, when kwargs holds no 'vmin',
\* updated with the parameters inferred from this slice
geo_plot_args(darray, kwargs) ==
    LET extra0 == Update(EmptyKw, kwargs)
        extra1 == Update(extra0, Kw({"transform"}, 0, 0, "", "", 0, 0, "PlateCarree"))
    IN  IF ~has_vmin(kwargs)
        THEN Update(extra1, infer_fallback(SliceData(darray)))
        ELSE extra1

\* the warnings geo_plot emits
geo_plot_warns(darray, kwargs) ==
    IF ~has_vmin(kwargs) THEN << <<"Re-inferring color parameters...", "">> >>
    ELSE <<>>

----------------------------------------------------------------------------
(* The script, step by step *)

\* a variant of load_entry that warns but does not store what it inferred
load_entry_nostore(cd, ds, v) == cd

\* lines 89-93, one variable: the mapping afterwards
load_entry(cd, ds, v) ==
    IF v \in ds.dims THEN cd
    ELSE IF v \in DOMAIN cd THEN cd
    ELSE Put(cd, v, infer_fallback(VarData(ds, v)))

\* hasattr(var_data, a): the variable has attribute a
hasattr(attrs, a) == \E p \in attrs : p[1] = a

\* var_data.<a>
getattr(attrs, a) == (CHOOSE p \in attrs : p[1] = a)[2]

\* lines 156-164: the label of the colorbar, its parts in order
cb_label(v, attrs) ==
    << IF hasattr(attrs, "long_name") THEN getattr(attrs, "long_name") ELSE v >>
    \o (IF hasattr(attrs, "level") THEN <<getattr(attrs, "level")>> ELSE <<>>)
    \o (IF hasattr(attrs, "units") THEN <<getattr(attrs, "units")>> ELSE <<>>)

\* lines 89-93, one variable: the warnings emitted
load_warns(cd, ds, v) ==
    IF v \notin ds.dims /\ v \notin DOMAIN cd
    THEN << <<"Couldn't find color data", v>> >>
    ELSE <<>>

\* lines 98-104, one variable: the mapping afterwards
infer_entry(cd, ds, v) ==
    IF v \in ds.dims THEN cd
    ELSE Put(cd, v, infer_batch(VarData(ds, v)))

\* line 117: the variables the plotting loop skips
skipped(ds, v) == v \in ds.dims \/ v \in ds.coords

\* a variant of loop_break that ignores --sample
loop_break_never(a) == FALSE

\* line 175: the time loop stops after this timestep
loop_break(a) == a.sample

\* a variant of after_resolve that goes straight to the plotting loop
after_resolve_noplace == "plot"

\* where the script goes once every variable has its parameters: line 106
after_resolve == "save"

NoSlice == [name |-> "", lon |-> <<>>, lat |-> <<>>, time |-> 0,
            vals |-> <<>>, attrs |-> {}, lon_attrs |-> {}]

NoFile == [readable |-> FALSE, data |-> <<>>]

\* --- inputs

TimeAxes == { <<0>>, <<0, 3600>>, <<3600, 0>>, <<0, 30>>, <<0, 30, 86400>> }

RunLonAxes == { <<0, 120, 240>>, <<0, 180, 360>>, <<0, 120, 360>>, <<0, 120>> }

NcFiles ==
    { [ok |-> FALSE, style |-> "short", time |-> <<0>>, lon |-> <<0, 120, 240>>] }
    \cup [ok : {TRUE}, style : {"short", "long"}, time : TimeAxes, lon : RunLonAxes]

\* records a colorfile may hold for a variable: a full set of parameters,
\* and a dict with a colormap name only
StoredFull == Kw(CmapKeys, 0, 1000, "viridis", "both", 21, 21, "")

StoredNoVmin == Kw({"cmap"}, 0, 0, "jet", "", 0, 0, "")

StoredNames == {"lev", "temperature", "pressure"}

StoredRecords == {StoredFull, StoredNoVmin}

ArgVariables == { [given |-> FALSE, names |-> {}],
                  [given |-> TRUE, names |-> {"temperature"}] }

Init ==
    /\ nc_file \in NcFiles
    /\ \E av \in ArgVariables, cg \in BOOLEAN, s \in BOOLEAN :
          args = [variables |-> av, colorfile_given |-> cg, sample |-> s]
    /\ \/ colorfile = NoFile
       \/ /\ args.colorfile_given
          /\ \E S \in SUBSET StoredNames :
                \E m \in [S -> StoredRecords] :
                   colorfile = [readable |-> TRUE, data |-> m]
    /\ pc = "open"
    /\ dataset = Closed
    /\ color_data = <<>>
    /\ i = 0
    /\ g = 0
    /\ var_cmap_kwargs = EmptyKw
    /\ plot_data = NoSlice
    /\ prev = NoSlice
    /\ cyc_status = "ok"
    /\ warned = <<>>
    /\ cf_disk = [written |-> FALSE, data |-> <<>>]
    /\ saved = <<>>
    /\ renders = <<>>
    /\ orig = NoSlice
    /\ applied = 0

\* lines 55-75
OpenDataset ==
    /\ pc = "open"
    /\ IF nc_file.ok
       THEN /\ dataset' = open_dataset(nc_file)
            /\ pc' = "colors"
       ELSE /\ pc' = "exit1"
            /\ UNCHANGED dataset
    /\ UNCHANGED <<args, nc_file, colorfile, color_data, i, g, var_cmap_kwargs,
                   warned, cf_disk, saved, renders>>
    /\ UNCHANGED cycvars

\* lines 79-86 and 95-97
ReadColorfile ==
    /\ pc = "colors"
    /\ IF ~args.colorfile_given
       THEN /\ color_data' = <<>>
            /\ pc' = "infer"
            /\ i' = 1
       ELSE IF ~colorfile.readable
       THEN /\ pc' = "exit1"
            /\ UNCHANGED <<color_data, i>>
       ELSE /\ color_data' = colorfile.data
            /\ pc' = "load"
            /\ i' = 1
    /\ UNCHANGED <<args, nc_file, colorfile, dataset, g, var_cmap_kwargs,
                   warned, cf_disk, saved, renders>>
    /\ UNCHANGED cycvars

\* lines 89-93: one pass of the loop
ResolveLoad ==
    /\ pc = "load"
    /\ LET v == dataset.variables[i]
       IN  /\ color_data' = load_entry(color_data, dataset, v)
           /\ warned' = warned \o load_warns(color_data, dataset, v)
    /\ IF i = Len(dataset.variables)
       THEN pc' = after_resolve /\ i' = 1
       ELSE pc' = pc /\ i' = i + 1
    /\ UNCHANGED <<args, nc_file, colorfile, dataset, g, var_cmap_kwargs,
                   cf_disk, saved, renders>>
    /\ UNCHANGED cycvars

\* lines 98-104: one pass of the loop
ResolveInfer ==
    /\ pc = "infer"
    /\ LET v == dataset.variables[i]
       IN  color_data' = infer_entry(color_data, dataset, v)
    /\ IF i = Len(dataset.variables)
       THEN pc' = after_resolve /\ i' = 1
       ELSE pc' = pc /\ i' = i + 1
    /\ UNCHANGED <<args, nc_file, colorfile, dataset, g, var_cmap_kwargs,
                   warned, cf_disk, saved, renders>>
    /\ UNCHANGED cycvars

\* lines 106-110
SaveColorfile ==
    /\ pc = "save"
    /\ cf_disk' = [written |-> TRUE, data |-> color_data]
    /\ pc' = "plot"
    /\ i' = 1
    /\ UNCHANGED <<args, nc_file, colorfile, dataset, color_data, g,
                   var_cmap_kwargs, warned, saved, renders>>
    /\ UNCHANGED cycvars

\* the variable loop moves on: the next variable, or the end of the script
NextVariable ==
    /\ g' = 0
    /\ IF i = Len(dataset.variables)
       THEN pc' = "done" /\ i' = i
       ELSE pc' = "plot" /\ i' = i + 1

\* line 117: continue
SkipVariable ==
    /\ pc = "plot"
    /\ g = 0
    /\ skipped(dataset, dataset.variables[i])
    /\ NextVariable
    /\ UNCHANGED <<args, nc_file, colorfile, dataset, color_data,
                   var_cmap_kwargs, warned, cf_disk, saved, renders>>
    /\ UNCHANGED cycvars

\* lines 119-129
BeginVariable ==
    /\ pc = "plot"
    /\ g = 0
    /\ ~skipped(dataset, dataset.variables[i])
    /\ IF dataset.variables[i] \in DOMAIN color_data
       THEN /\ var_cmap_kwargs' = color_data[dataset.variables[i]]
            /\ g' = 1
            /\ pc' = pc
       ELSE /\ pc' = "KeyError"
            /\ UNCHANGED <<var_cmap_kwargs, g>>
    /\ UNCHANGED <<args, nc_file, colorfile, dataset, color_data, i,
                   warned, cf_disk, saved, renders>>
    /\ UNCHANGED cycvars

\* lines 132-176: one pass of the time loop
PlotTimestep ==
    /\ pc = "plot"
    /\ g >= 1
    /\ LET v     == dataset.variables[i]
           time  == Groups(dataset)[g]
           slice == SliceOf(dataset, v, time)
       IN  /\ prev' = slice
           /\ cyc_status' = CorrectorStatus(slice)
           /\ plot_data' = Corrector(slice)
           /\ IF CorrectorStatus(slice) # "ok"
              THEN /\ pc' = "aborted"
                   /\ UNCHANGED <<i, g, warned, saved, renders>>
              ELSE /\ renders' = Append(renders,
                          [ v |-> v, time |-> time, g |-> g,
                            nlon |-> Len(Corrector(slice).lon),
                            label |-> cb_label(v, VarAttrs(v)),
                            kwargs |-> geo_plot_args(Corrector(slice),
                                                     var_cmap_kwargs) ])
                   /\ warned' = warned \o geo_plot_warns(Corrector(slice),
                                                         var_cmap_kwargs)
                   /\ saved' = Append(saved, out_fn(v, time))
                   /\ IF loop_break(args) \/ g = Len(Groups(dataset))
                      THEN NextVariable
                      ELSE g' = g + 1 /\ UNCHANGED <<pc, i>>
    /\ UNCHANGED <<args, nc_file, colorfile, dataset, color_data,
                   var_cmap_kwargs, cf_disk, orig, applied>>

Next ==
    \/ OpenDataset
    \/ ReadColorfile
    \/ ResolveLoad
    \/ ResolveInfer
    \/ SaveColorfile
    \/ SkipVariable
    \/ BeginVariable
    \/ PlotTimestep

Spec == Init /\ [][Next]_vars

----------------------------------------------------------------------------
(* The corrector on every small slice *)

\* strictly increasing longitude axes of length n over LonVals
RECURSIVE IncSeqs(_, _)
IncSeqs(n, S) ==
    IF n = 0 THEN {<<>>}
    ELSE UNION { { Append(s, x) : x \in {y \in S : s = <<>> \/ y > Last(s)} }
                 : s \in IncSeqs(n - 1, S) }

LonAxes == UNION { IncSeqs(n, LonVals) : n \in 0..MaxLon }

AttrChoices == { {}, {<<"long_name", "Temperature">>, <<"units", "K">>} }

MkSlice(lon, v, a) ==
    [ name      |-> "T",
      lon       |-> lon,
      lat       |-> LatCoord,
      time      |-> 0,
      vals      |-> v,
      attrs     |-> a,
      lon_attrs |-> {<<"units", "degrees_east">>} ]

CycInit ==
    /\ \E lon \in LonAxes, a \in AttrChoices :
          \E v \in [DOMAIN LatCoord -> [1..Len(lon) -> CellVals]] :
             orig = MkSlice(lon, v, a)
    /\ plot_data = orig
    /\ prev = orig
    /\ cyc_status = "ok"
    /\ applied = 0
    /\ args = [variables |-> [given |-> FALSE, names |-> {}],
               colorfile_given |-> FALSE, sample |-> FALSE]
    /\ nc_file = [ok |-> FALSE, style |-> "short", time |-> <<0>>,
                  lon |-> <<0, 120, 240>>]
    /\ colorfile = NoFile
    /\ pc = "corrector"
    /\ dataset = Closed
    /\ color_data = <<>>
    /\ i = 0
    /\ g = 0
    /\ var_cmap_kwargs = EmptyKw
    /\ warned = <<>>
    /\ cf_disk = [written |-> FALSE, data |-> <<>>]
    /\ saved = <<>>
    /\ renders = <<>>

\* one pass of lines 142-144 over the slice in plot_data
ApplyCorrector ==
    /\ applied < MaxApply
    /\ cyc_status = "ok"
    /\ prev' = plot_data
    /\ cyc_status' = CorrectorStatus(plot_data)
    /\ plot_data' = Corrector(plot_data)
    /\ applied' = applied + 1
    /\ UNCHANGED orig
    /\ UNCHANGED runvars

CycNext == ApplyCorrector

SpecCyc == CycInit /\ [][CycNext]_vars

----------------------------------------------------------------------------
(* Properties of the corrector (checked under SpecCyc) *)

\* S is not detected as cyclic: check_cyclic(S) returns False
NonCyclic(S) == Len(S.lon) >= 1 /\ ~check_cyclic(S)

\* the last pass called cyclic_dataarray on prev and it returned plot_data
Corrected == applied >= 1 /\ NonCyclic(prev) /\ cyc_status = "ok"

\* plot_data is prev with one longitude sample appended that repeats the
\* first sample's values; every other coordinate and attribute is prev's
OneSampleAppended ==
    /\ Len(plot_data.lon) = Len(prev.lon) + 1
    /\ \A r \in DOMAIN prev.vals :
          /\ Len(plot_data.vals[r]) = Len(prev.lon) + 1
          /\ plot_data.vals[r][Len(prev.lon) + 1] = prev.vals[r][1]
          /\ \A j \in 1..Len(prev.lon) : plot_data.vals[r][j] = prev.vals[r][j]
    /\ \A j \in 1..Len(prev.lon) : plot_data.lon[j] = prev.lon[j]
    /\ DOMAIN plot_data.vals = DOMAIN prev.vals
    /\ plot_data.lat = prev.lat
    /\ plot_data.time = prev.time
    /\ plot_data.attrs = prev.attrs
    /\ plot_data.lon_attrs = prev.lon_attrs

EquallySpaced(lon) == \A j \in 1..(Len(lon) - 1) : lon[j + 1] - lon[j] = lon[2] - lon[1]

\* C1 (as amended): for every non-cyclic slice S whose longitude axis has at
\* least two equally spaced samples, cyclic_dataarray(S) returns a slice
\* with exactly one more longitude sample, whose appended coordinate is S's
\* last longitude plus the spacing of the axis and whose appended values are
\* S's values at the first longitude for every row, all other coordinates
\* and attributes unchanged; on any other non-cyclic slice it raises.
C1_AppendsCyclicPoint ==
    (applied >= 1 /\ NonCyclic(prev)) =>
        IF Len(prev.lon) >= 2 /\ EquallySpaced(prev.lon)
        THEN /\ cyc_status = "ok"
             /\ OneSampleAppended
             /\ Last(plot_data.lon) = Last(prev.lon) + (prev.lon[2] - prev.lon[1])
        ELSE cyc_status # "ok" /\ plot_data = prev

\* C1 witness: a correction of a grid that does not span the globe, where
\* the appended coordinate is not the first longitude + 360
C1_Witness ==
    /\ Corrected
    /\ OneSampleAppended
    /\ Last(plot_data.lon) # prev.lon[1] + 360

\* C1 (as claimed): whenever cyclic_dataarray returns for a non-cyclic slice
\* S, the result has one more longitude sample, the appended coordinate is
\* S's first longitude + 360 and the appended values are S's first values.
C1_AppendsFirstPlus360 ==
    Corrected =>
        /\ OneSampleAppended
        /\ Last(plot_data.lon) = prev.lon[1] + 360

\* the first and last longitude samples of S are equal in every row
FirstLastEqual(S) ==
    /\ Len(S.lon) >= 1
    /\ \A r \in DOMAIN S.vals : FloatEq(S.vals[r][1], S.vals[r][Len(S.lon)])

\* C2 (as claimed): the corrector is idempotent: a slice whose first and
\* last longitude samples are equal comes back unchanged, and a second pass
\* over a corrected slice appends nothing, whatever values the slice holds.
C2_Idempotent ==
    /\ (applied = 1 /\ FirstLastEqual(orig)) => plot_data = orig
    /\ (applied = 2 /\ cyc_status = "ok") => plot_data = prev

\* C3 (as claimed): a slice whose longitude axis has fewer than 2 samples
\* makes the corrector fail with an error; it is never handed on.
C3_ShortAxisFails ==
    (applied >= 1 /\ Len(prev.lon) < 2) => cyc_status # "ok"

----------------------------------------------------------------------------
(* Properties of the run (checked under Spec) *)

\* the run read a colorfile (load mode)
LoadMode == args.colorfile_given /\ colorfile.readable

\* the pc values after the resolution of the colormap parameters
Resolved == pc \in {"save", "plot", "done", "aborted", "KeyError"}

\* the variables that are no dimension
NonDims == {v \in Range(dataset.variables) : v \notin dataset.dims}

\* the variables the plotting loop does not skip
Plotted == {v \in Range(dataset.variables) : ~skipped(dataset, v)}

\* how many warnings.warn calls said msg about v
WarnCount(msg, v) == Cardinality({k \in DOMAIN warned : warned[k] = <<msg, v>>})

\* the resolving loop has passed the variable at position k
Passed(k) == Resolved \/ (pc \in {"load", "infer"} /\ k < i)

C5_SavedBeforePlotting ==
    /\ cf_disk.written <=> Resolved /\ pc # "save"
    /\ ~cf_disk.written => saved = <<>> /\ renders = <<>>
    /\ cf_disk.written =>
          /\ cf_disk.data = color_data
          /\ NonDims \subseteq DOMAIN cf_disk.data

\* C5 witness: a run that aborted while rendering, after it wrote the
\* colorfile and an image
C5_Witness ==
    /\ pc = "aborted"
    /\ cf_disk.written
    /\ saved # <<>>

\* C5 (as claimed): the colorfile is written only after every image of the
\* run has been rendered, so a run that aborts while rendering has not
\* written it.
C5_SavedAtEnd ==
    /\ cf_disk.written => pc = "done"
    /\ pc = "aborted" => ~cf_disk.written

\* the variables an image was rendered for
RenderedVars == {renders[k].v : k \in DOMAIN renders}

\* C6 (as claimed): with -v/--variables only the listed variables are
\* plotted; without it exactly the non-coordinate, non-dimension variables.
C6_OnlyListedPlotted ==
    /\ args.variables.given => RenderedVars \subseteq args.variables.names
    /\ (~args.variables.given /\ pc = "done") => RenderedVars = Plotted

\* the plot_func calls for variable v
RendersOf(v) == {k \in DOMAIN renders : renders[k].v = v}

\* the savefig calls for variable v
SavedOf(v) == {k \in DOMAIN saved : saved[k][1] = v}

\* C7: when the run completes, with --sample every plotted variable has
\* exactly one image, named with the first timestamp the time loop iterates;
\* without --sample every timestamp of the variable is rendered exactly once
\* into the file named for it.
C7_SampleOnePerVariable ==
    pc = "done" =>
        \A v \in Plotted :
            IF args.sample
            THEN \E k \in DOMAIN renders :
                    /\ RendersOf(v) = {k}
                    /\ SavedOf(v) = {k}
                    /\ renders[k].g = 1
                    /\ renders[k].time = Groups(dataset)[1]
                    /\ saved[k] = out_fn(v, Groups(dataset)[1])
            ELSE /\ Cardinality(RendersOf(v)) = Len(dataset.time)
                 /\ Cardinality(SavedOf(v)) = Len(dataset.time)
                 /\ \A t \in Range(dataset.time) :
                       \E k \in RendersOf(v) :
                          /\ renders[k].time = t
                          /\ saved[k] = out_fn(v, t)

\* C7 witness: a completed --sample run over a file with two timesteps
C7_Witness ==
    /\ pc = "done"
    /\ args.sample
    /\ Len(dataset.time) = 2
    /\ Len(saved) = 2

\* the bounds, levels and extend flag of two dicts agree
SameParams(a, b) ==
    /\ a.vmin = b.vmin
    /\ a.vmax = b.vmax
    /\ a.levels = b.levels
    /\ a.extend = b.extend

\* C8 (as amended): for a variable whose record holds 'vmin' (every inferred
\* record does), every timestep is rendered with the bounds, levels and
\* extend flag of that record, so any two timesteps are rendered alike; a
\* record without 'vmin' is replaced per slice by geo_plot's own inference.
C8_SameParamsEveryTimestep ==
    \A k1 \in DOMAIN renders :
        LET v == renders[k1].v
        IN  has_vmin(color_data[v]) =>
                /\ SameParams(renders[k1].kwargs, color_data[v])
                /\ \A k2 \in RendersOf(v) :
                      SameParams(renders[k1].kwargs, renders[k2].kwargs)

\* C8 witness: two timesteps of one variable rendered from a record with
\* 'vmin', while the slices themselves have different ranges
C8_Witness ==
    \E k1, k2 \in DOMAIN renders :
        /\ k1 # k2
        /\ renders[k1].v = renders[k2].v
        /\ has_vmin(color_data[renders[k1].v])
        /\ SameParams(renders[k1].kwargs, renders[k2].kwargs)

\* C8 (as claimed): any two timesteps of one variable are rendered with the
\* same bounds, levels and extend flag, whatever record the colorfile holds.
C8_SameParamsAnyRecord ==
    \A k1, k2 \in DOMAIN renders :
        renders[k1].v = renders[k2].v =>
            SameParams(renders[k1].kwargs, renders[k2].kwargs)

\* C9 (as claimed): no image file name is written twice in a run.
C9_WriteOnce ==
    \A k1, k2 \in DOMAIN saved : k1 # k2 => saved[k1] # saved[k2]

\* C10 (as claimed): a variable missing from the loaded colorfile gets the
\* parameters the no-colorfile run infers for it.
C10_FallbackEqualsBatch ==
    (LoadMode /\ Resolved) =>
        \A v \in NonDims :
            v \notin DOMAIN colorfile.data =>
                color_data[v] = infer_batch(VarData(dataset, v))

====
